---- MODULE Spec2Model ----
(***************************************************************************)
(* Model of finder.py: the character n-gram / m-gram pipeline.             *)
(*                                                                         *)
(*   text --preprocess_text--> filtered_text                               *)
(*        --generate_character_ngrams (twice)--> n_grams, m_grams          *)
(*        --Counter(...).most_common(top_n)--> most_common_{n,m}_grams     *)
(*        --count_ngram_combinations--> counts                             *)
(*        --generate_html_ngram_matrix--> gradient_list, colour lookups    *)
(*                                                                         *)
(* A Python str is a sequence of one-character strings; a configuration    *)
(* string used only through "ch in s" is the set of its characters; a      *)
(* dict is a function; a Counter is the sequence of its (key, count)       *)
(* entries in insertion order.                                             *)
(***************************************************************************)
EXTENDS Integers, Sequences, FiniteSets

VARIABLES
    config,               \* the global config loaded from config.json
    text,                 \* the content of the input file
    filtered_text,        \* preprocess_text(text)
    n_grams,              \* generate_character_ngrams(filtered_text, n)
    m_grams,              \* generate_character_ngrams(filtered_text, m)
    most_common_n_grams,  \* ranked n-grams
    most_common_m_grams,  \* ranked m-grams
    counts,               \* count_ngram_combinations(...)
    gradient_len,         \* len(gradient_list) in generate_html_ngram_matrix
    html,                 \* "none", "written" or "failed"
    pc                    \* position of the pipeline

vars == <<config, text, filtered_text, n_grams, m_grams, most_common_n_grams,
          most_common_m_grams, counts, gradient_len, html, pc>>

-----------------------------------------------------------------------------
(* Bounds of the model *)

MaxTextLen == 3
MaxStreamLen == 5
MaxGrams == 2
MaxTopN == 3

Alphabet == {"a", "b", "A"}
CountAlphabet == {"a", "b"}
WindowLengths == {1, 2}

Strings(S, k) == UNION {[1..j -> S] : j \in 0..k}

Min(x, y) == IF x <= y THEN x ELSE y
Max(x, y) == IF x >= y THEN x ELSE y

-----------------------------------------------------------------------------
(* Python primitives *)

\* range(k): 0, 1, ..., k-1 (empty when k <= 0)
RangeSeq(k) == [i \in 1..k |-> i - 1]

\* a slice bound i of a sequence of length len: negative counts from the end,
\* and the result is clamped to 0..len
PyIndex(i, len) == IF i < 0 THEN Max(i + len, 0) ELSE Min(i, len)

\* s[lo : hi]
Slice(s, lo, hi) ==
    LET l == PyIndex(lo, Len(s))
        h == PyIndex(hi, Len(s))
    IN  IF h <= l THEN << >> ELSE SubSeq(s, l + 1, h)

\* str.lower() on one character of the alphabet
Lower(ch) == IF ch = "A" THEN "a" ELSE ch

\* str.lower() on a text
LowerStr(s) == [i \in 1..Len(s) |-> Lower(s[i])]

\* str.lower() on a configuration string, seen as the set of its characters
LowerSet(S) == {Lower(ch) : ch \in S}

-----------------------------------------------------------------------------
(* preprocess_text *)

\* the conditional expression of the first comprehension, with the
\* allowed/replace priority reversed
ReplaceCharReplaceFirst(ch, allowed, replace, repl) ==
    IF ch \in replace THEN repl
    ELSE IF ch \in allowed THEN ch
    ELSE ch

\* the conditional expression of the first comprehension
ReplaceChar(ch, allowed, replace, repl) ==
    IF ch \in allowed THEN ch
    ELSE IF ch \in replace THEN repl
    ELSE ch

RECURSIVE ReplaceChars(_, _, _, _)
ReplaceChars(t, allowed, replace, repl) ==
    IF t = << >> THEN << >>
    ELSE <<ReplaceChar(Head(t), allowed, replace, repl)>>
         \o ReplaceChars(Tail(t), allowed, replace, repl)

RECURSIVE RemoveSkipped(_, _)
RemoveSkipped(t, skip) ==
    IF t = << >> THEN << >>
    ELSE (IF Head(t) \in skip THEN << >> ELSE <<Head(t)>>)
         \o RemoveSkipped(Tail(t), skip)

\* the text and the three character sets after the "if not case_sensitive" block
FoldedText(t, cfg) == IF ~cfg.case_sensitive THEN LowerStr(t) ELSE t
FoldedAllowed(cfg) ==
    IF ~cfg.case_sensitive THEN LowerSet(cfg.allowed_characters)
    ELSE cfg.allowed_characters
FoldedReplace(cfg) ==
    IF ~cfg.case_sensitive THEN LowerSet(cfg.characters_to_replace)
    ELSE cfg.characters_to_replace
FoldedSkip(cfg) ==
    IF ~cfg.case_sensitive THEN LowerSet(cfg.characters_to_skip)
    ELSE cfg.characters_to_skip

\* preprocess_text with the two comprehensions in the other order
preprocess_text_skip_first(t, cfg) ==
    ReplaceChars(RemoveSkipped(FoldedText(t, cfg), FoldedSkip(cfg)),
                 FoldedAllowed(cfg), FoldedReplace(cfg),
                 cfg.replacement_character)

preprocess_text(t, cfg) ==
    RemoveSkipped(ReplaceChars(FoldedText(t, cfg), FoldedAllowed(cfg),
                               FoldedReplace(cfg), cfg.replacement_character),
                  FoldedSkip(cfg))

-----------------------------------------------------------------------------
(* generate_character_ngrams *)

\* the argument of range(...) with the last window lost
NumWindowsShort(t, n) == Len(t) - n

\* the argument of range(...): the number of window offsets
NumWindows(t, n) == Len(t) - n + 1

\* any(ch in characters_to_split for ch in window)
ContainsSplit(window, split) == \E k \in 1..Len(window) : window[k] \in split

\* characters_to_split is read from the global config as it was loaded: it is
\* not lower-cased, whatever case_sensitive says
generate_character_ngrams(t, n, cfg) ==
    LET offsets == SelectSeq(RangeSeq(NumWindows(t, n)),
                       LAMBDA i : ~ContainsSplit(Slice(t, i, i + n),
                                                 cfg.characters_to_split))
    IN  [k \in 1..Len(offsets) |-> Slice(t, offsets[k], offsets[k] + n)]

-----------------------------------------------------------------------------
(* Counter(...) and most_common(top_n) *)

\* one update of a counter whose known key is taken out and put back last
CounterAddMoveToEnd(c, x) ==
    IF \E i \in 1..Len(c) : c[i].key = x
    THEN LET i == CHOOSE i \in 1..Len(c) : c[i].key = x
         IN  SubSeq(c, 1, i - 1) \o SubSeq(c, i + 1, Len(c))
                 \o <<[key |-> x, cnt |-> c[i].cnt + 1]>>
    ELSE Append(c, [key |-> x, cnt |-> 1])

\* one update of the Counter: a new key goes last, a known key keeps its place
CounterAdd(c, x) ==
    IF \E i \in 1..Len(c) : c[i].key = x
    THEN [i \in 1..Len(c) |->
             IF c[i].key = x THEN [key |-> x, cnt |-> c[i].cnt + 1] ELSE c[i]]
    ELSE Append(c, [key |-> x, cnt |-> 1])

RECURSIVE CounterFold(_, _)
CounterFold(c, grams) ==
    IF grams = << >> THEN c
    ELSE CounterFold(CounterAdd(c, Head(grams)), Tail(grams))

\* Counter(grams)
Counter(grams) == CounterFold(<< >>, grams)

\* an unstable ranking: a later entry goes before the earlier entries of its count
KeepsBeforeStrict(y, e) == y.cnt > e.cnt

\* most_common sorts by count, descending and stable: an entry stays behind
\* every earlier entry whose count is at least its own
KeepsBefore(y, e) == y.cnt >= e.cnt

InsertRanked(sorted, e) ==
    LET k == Cardinality({i \in 1..Len(sorted) : KeepsBefore(sorted[i], e)})
    IN  SubSeq(sorted, 1, k) \o <<e>> \o SubSeq(sorted, k + 1, Len(sorted))

RECURSIVE SortFold(_, _)
SortFold(sorted, entries) ==
    IF entries = << >> THEN sorted
    ELSE SortFold(InsertRanked(sorted, Head(entries)), Tail(entries))

\* [gram for gram, _ in counter.most_common(top_n)]: heapq.nlargest gives
\* nothing for top_n <= 0 and the first top_n entries of the stable sort else
MostCommon(c, top_n) ==
    LET sorted == SortFold(<< >>, c)
        kept == IF top_n <= 0 THEN 0 ELSE Min(top_n, Len(sorted))
    IN  [i \in 1..kept |-> sorted[i].key]

-----------------------------------------------------------------------------
(* count_ngram_combinations *)

\* the positions list of one key of n_gram_positions / m_gram_positions
Positions(t, gram, n) ==
    SelectSeq(RangeSeq(NumWindows(t, n)), LAMBDA i : Slice(t, i, i + n) = gram)

\* the slice compared with the m-gram, taken one character too late
FollowingSliceGap(t, n_pos, n, m) == Slice(t, n_pos + n + 1, n_pos + n + m + 1)

\* text[n_pos + n : n_pos + n + m]
FollowingSlice(t, n_pos, n, m) == Slice(t, n_pos + n, n_pos + n + m)

\* the innermost loop, with its break
RECURSIVE CountLoop(_, _, _, _, _, _)
CountLoop(t, positions, m_gram, n, m, count) ==
    IF positions = << >> THEN count
    ELSE IF Head(positions) + n = Len(t) THEN count
    ELSE CountLoop(t, Tail(positions), m_gram, n, m,
                   IF FollowingSlice(t, Head(positions), n, m) = m_gram
                   THEN count + 1 ELSE count)

\* a table that keeps only the pairs that occur
StoreCountSparse(table, key, count) ==
    IF count = 0 THEN table
    ELSE [x \in (DOMAIN table) \cup {key} |-> IF x = key THEN count ELSE table[x]]

\* counts[(n_gram, m_gram)] = count
StoreCount(table, key, count) ==
    [x \in (DOMAIN table) \cup {key} |-> IF x = key THEN count ELSE table[x]]

\* the two nested loops over n_grams and m_grams, k counting the pairs done
RECURSIVE FillCounts(_, _, _, _, _, _, _)
FillCounts(table, k, t, ng, mg, n, m) ==
    IF k >= Len(ng) * Len(mg) THEN table
    ELSE LET a == ng[(k \div Len(mg)) + 1]
             b == mg[(k % Len(mg)) + 1]
         IN  FillCounts(StoreCount(table, <<a, b>>,
                                   CountLoop(t, Positions(t, a, n), b, n, m, 0)),
                        k + 1, t, ng, mg, n, m)

count_ngram_combinations(t, ng, mg, n, m) ==
    FillCounts(<< >>, 0, t, ng, mg, n, m)

-----------------------------------------------------------------------------
(* generate_html_ngram_matrix *)

SetMax(S) == CHOOSE x \in S : \A y \in S : y <= x

\* max(counts.values(), default=1)
MaxCount(table) ==
    IF DOMAIN table = {} THEN 1 ELSE SetMax({table[p] : p \in DOMAIN table})

\* both halves of the gradient ask range_to for max_count // 2 colours
HalfSteps(table) == MaxCount(table) \div 2

\* the two halves and the inserted background colour
GradientLen(table) == HalfSteps(table) + HalfSteps(table) + 1

\* range_to is asked for at least one colour, and every gradient_list[count]
\* done by the table loop is in range
HtmlSucceeds(ng, mg, table) ==
    /\ HalfSteps(table) >= 1
    /\ \A i \in 1..Len(ng) : \A j \in 1..Len(mg) :
          LET count == IF <<ng[i], mg[j]>> \in DOMAIN table
                       THEN table[<<ng[i], mg[j]>>] ELSE 0
          IN  count < GradientLen(table)

-----------------------------------------------------------------------------
(* The pipeline: most_common_ngrams() and main() *)

Preprocess ==
    /\ pc = "start"
    /\ filtered_text' = preprocess_text(text, config)
    /\ pc' = "filtered"
    /\ UNCHANGED <<config, text, n_grams, m_grams, most_common_n_grams,
                   most_common_m_grams, counts, gradient_len, html>>

GenerateNgrams ==
    /\ pc = "filtered"
    /\ n_grams' = generate_character_ngrams(filtered_text, config.n, config)
    /\ m_grams' = generate_character_ngrams(filtered_text, config.m, config)
    /\ pc' = "generated"
    /\ UNCHANGED <<config, text, filtered_text, most_common_n_grams,
                   most_common_m_grams, counts, gradient_len, html>>

RankNgrams ==
    /\ pc = "generated"
    /\ most_common_n_grams' = MostCommon(Counter(n_grams), config.top_n)
    /\ most_common_m_grams' = MostCommon(Counter(m_grams), config.top_n)
    /\ pc' = "ranked"
    /\ UNCHANGED <<config, text, filtered_text, n_grams, m_grams, counts,
                   gradient_len, html>>

CountCombinations ==
    /\ pc = "ranked"
    /\ counts' = count_ngram_combinations(filtered_text, most_common_n_grams,
                                          most_common_m_grams, config.n, config.m)
    /\ pc' = "counted"
    /\ UNCHANGED <<config, text, filtered_text, n_grams, m_grams,
                   most_common_n_grams, most_common_m_grams, gradient_len, html>>

GenerateHtml ==
    /\ pc = "counted"
    /\ gradient_len' = GradientLen(counts)
    /\ html' = IF HtmlSucceeds(most_common_n_grams, most_common_m_grams, counts)
               THEN "written" ELSE "failed"
    /\ pc' = "html"
    /\ UNCHANGED <<config, text, filtered_text, n_grams, m_grams,
                   most_common_n_grams, most_common_m_grams, counts>>

\* preprocess_text applied to its own result
PreprocessAgain ==
    /\ pc = "filtered"
    /\ text' = filtered_text
    /\ filtered_text' = preprocess_text(filtered_text, config)
    /\ pc' = "refiltered"
    /\ UNCHANGED <<config, n_grams, m_grams, most_common_n_grams,
                   most_common_m_grams, counts, gradient_len, html>>

Blank ==
    /\ filtered_text = << >>
    /\ n_grams = << >>
    /\ m_grams = << >>
    /\ most_common_n_grams = << >>
    /\ most_common_m_grams = << >>
    /\ counts = << >>
    /\ gradient_len = 0
    /\ html = "none"

-----------------------------------------------------------------------------
(* Inputs *)

\* the text of the end-to-end example, "aabbaabbaabb"
ExampleText == <<"a", "a", "b", "b", "a", "a", "b", "b", "a", "a", "b", "b">>

\* the configurations of the whole pipeline; n = 0 and top_n = -1 are the
\* ill-formed ones, which json.load accepts like any other value
PipelineConfigs ==
    [allowed_characters : {{}, {"a", "b"}},
     characters_to_replace : {{}, {"b"}},
     replacement_character : {"a"},
     characters_to_skip : {{}, {"b"}},
     characters_to_split : {{}, {"a"}, {"A"}},
     case_sensitive : BOOLEAN,
     n : {0, 1, 2},
     m : {1, 2},
     top_n : {-1, 0, 1, 2}]

\* every normalisation rule over the alphabet
NormalizerConfigs ==
    [allowed_characters : SUBSET Alphabet,
     characters_to_replace : SUBSET Alphabet,
     replacement_character : Alphabet,
     characters_to_skip : SUBSET Alphabet,
     characters_to_split : {{}},
     case_sensitive : BOOLEAN,
     n : {1},
     m : {1},
     top_n : {1}]

\* configurations under which preprocess_text changes nothing
ExtractorConfigs ==
    [allowed_characters : {{}},
     characters_to_replace : {{}},
     replacement_character : {"a"},
     characters_to_skip : {{}},
     characters_to_split : SUBSET Alphabet,
     case_sensitive : {TRUE},
     n : {1, 2, 3},
     m : {1, 2},
     top_n : 0..MaxTopN]

CounterConfigs ==
    [allowed_characters : {{}},
     characters_to_replace : {{}},
     replacement_character : {"a"},
     characters_to_skip : {{}},
     characters_to_split : {{}},
     case_sensitive : {TRUE},
     n : WindowLengths,
     m : WindowLengths,
     top_n : {MaxGrams}]

\* the lists of at most MaxGrams distinct strings of length len
DistinctLists(len) ==
    {l \in Strings([1..len -> CountAlphabet], MaxGrams) :
        \A i, j \in 1..Len(l) : i # j => l[i] # l[j]}

\* main(): the configuration is loaded, the input file is about to be read
Init ==
    /\ config \in PipelineConfigs
    /\ text \in Strings(Alphabet, MaxTextLen) \cup {ExampleText}
    /\ Blank
    /\ pc = "start"

Next ==
    \/ Preprocess
    \/ GenerateNgrams
    \/ RankNgrams
    \/ CountCombinations
    \/ GenerateHtml

Spec == Init /\ [][Next]_vars

\* preprocess_text on every text and rule set, then on its own result
InitPre ==
    /\ config \in NormalizerConfigs
    /\ text \in Strings(Alphabet, MaxTextLen)
    /\ Blank
    /\ pc = "start"

NextPre ==
    \/ Preprocess
    \/ PreprocessAgain

SpecPre == InitPre /\ [][NextPre]_vars

\* generate_character_ngrams and most_common on every cleaned stream
InitGen ==
    /\ config \in ExtractorConfigs
    /\ text \in Strings(Alphabet, MaxStreamLen)
    /\ filtered_text = text
    /\ n_grams = << >>
    /\ m_grams = << >>
    /\ most_common_n_grams = << >>
    /\ most_common_m_grams = << >>
    /\ counts = << >>
    /\ gradient_len = 0
    /\ html = "none"
    /\ pc = "filtered"

NextGen ==
    \/ GenerateNgrams
    \/ RankNgrams

SpecGen == InitGen /\ [][NextGen]_vars

\* count_ngram_combinations on every stream and every two lists of distinct
\* strings of the lengths n and m
InitCount ==
    /\ config \in CounterConfigs
    /\ text \in Strings(CountAlphabet, MaxStreamLen)
    /\ filtered_text = text
    /\ n_grams = << >>
    /\ m_grams = << >>
    /\ most_common_n_grams \in DistinctLists(config.n)
    /\ most_common_m_grams \in DistinctLists(config.m)
    /\ counts = << >>
    /\ gradient_len = 0
    /\ html = "none"
    /\ pc = "ranked"

NextCount == CountCombinations

SpecCount == InitCount /\ [][NextCount]_vars

-----------------------------------------------------------------------------
(* Vocabulary of the properties *)

Ran(s) == {s[i] : i \in 1..Len(s)}

\* the window of length len that starts at offset p (0-based) of t
WindowAt(t, p, len) == SubSeq(t, p + 1, p + len)

\* the offsets at which gram occurs in t
Occurrences(t, gram) ==
    {p \in 0..(Len(t) - Len(gram)) : WindowAt(t, p, Len(gram)) = gram}

\* the offsets p where a occurs and b starts exactly where a ends
Adjacent(t, a, b) ==
    {p \in 0..(Len(t) - Len(a) - Len(b)) :
        /\ WindowAt(t, p, Len(a)) = a
        /\ WindowAt(t, p + Len(a), Len(b)) = b}

\* how often x is in the sequence grams, and where it is first
Occ(grams, x) == Cardinality({i \in 1..Len(grams) : grams[i] = x})
First(grams, x) == CHOOSE i \in 1..Len(grams) :
                       grams[i] = x /\ \A j \in 1..(i - 1) : grams[j] # x

\* x is ranked before y: more frequent, or as frequent and seen first
RanksBefore(grams, x, y) ==
    \/ Occ(grams, x) > Occ(grams, y)
    \/ Occ(grams, x) = Occ(grams, y) /\ First(grams, x) < First(grams, y)

Counted == pc \in {"counted", "html"}

-----------------------------------------------------------------------------
(* C1 *)

AdjacencyExact ==
    \A i \in 1..Len(most_common_n_grams) : \A j \in 1..Len(most_common_m_grams) :
        LET a == most_common_n_grams[i]
            b == most_common_m_grams[j]
        IN  /\ <<a, b>> \in DOMAIN counts
            /\ counts[<<a, b>>] = Cardinality(Adjacent(filtered_text, a, b))

\* C1: for every stream and every two lists of distinct strings of the lengths
\* n and m, the count of each pair (a, b) is exactly the number of offsets p
\* where a occurs at p and b occurs at p + n; an occurrence of a at the very
\* end of the stream adds to no pair and hides no other occurrence of a.
C1_ExactAdjacency == pc = "counted" => AdjacencyExact

\* some a occurs both at the end of the stream and before some b
C1_Witness ==
    /\ pc = "counted"
    /\ \E i \in 1..Len(most_common_n_grams) : \E j \in 1..Len(most_common_m_grams) :
          LET a == most_common_n_grams[i]
              b == most_common_m_grams[j]
          IN  /\ (Len(filtered_text) - Len(a)) \in Occurrences(filtered_text, a)
              /\ counts[<<a, b>>] >= 2

-----------------------------------------------------------------------------
(* C2 *)

\* C2: the keys of the table are exactly the pairs of the cross product of
\* the two lists (a pair that is never adjacent has the value 0), and every
\* count c of a pair (a, b) has 0 <= c <= min(occurrences of a, len(stream)).
C2_DenseAndBounded ==
    pc = "counted" =>
        /\ DOMAIN counts = Ran(most_common_n_grams) \X Ran(most_common_m_grams)
        /\ \A p \in DOMAIN counts :
              /\ counts[p] >= 0
              /\ counts[p] <= Min(Cardinality(Occurrences(filtered_text, p[1])),
                                  Len(filtered_text))

\* a table with a pair of count 0 and a pair counted at every occurrence of a
C2_Witness ==
    /\ pc = "counted"
    /\ \E p \in DOMAIN counts : counts[p] = 0
    /\ \E p \in DOMAIN counts :
          /\ counts[p] >= 2
          /\ counts[p] = Cardinality(Occurrences(filtered_text, p[1]))

-----------------------------------------------------------------------------
(* C3 *)

RankedPrefix(grams, ranked, top_n) ==
    /\ \A i, j \in 1..Len(ranked) : i # j => ranked[i] # ranked[j]
    /\ Ran(ranked) \subseteq Ran(grams)
    /\ Len(ranked) = Min(top_n, Cardinality(Ran(grams)))
    /\ \A i, j \in 1..Len(ranked) :
          i < j => /\ Occ(grams, ranked[i]) >= Occ(grams, ranked[j])
                   /\ RanksBefore(grams, ranked[i], ranked[j])
    /\ \A x \in Ran(ranked) : \A y \in Ran(grams) \ Ran(ranked) :
          RanksBefore(grams, x, y)
    /\ (top_n = 0 => ranked = << >>)

\* C3: for every top_n >= 0 the ranked list holds distinct n-grams, has
\* min(top_n, number of distinct values) entries, is ordered by non-increasing
\* count with ties in the order of first appearance, and is the prefix of that
\* full ordering (every value left out ranks behind every value kept);
\* top_n = 0 gives the empty list.
C3_RankedPrefix ==
    pc = "ranked" =>
        /\ RankedPrefix(n_grams, most_common_n_grams, config.top_n)
        /\ RankedPrefix(m_grams, most_common_m_grams, config.top_n)

\* a ranking that moved a later value to the front, kept a tie in the order
\* of first appearance, and cut a value off
C3_Witness ==
    /\ pc = "ranked"
    /\ Len(most_common_n_grams) >= 2
    /\ Len(most_common_n_grams) < Cardinality(Ran(n_grams))
    /\ most_common_n_grams[1] # n_grams[1]
    /\ \E i \in 1..(Len(most_common_n_grams) - 1) :
          Occ(n_grams, most_common_n_grams[i])
              = Occ(n_grams, most_common_n_grams[i + 1])

-----------------------------------------------------------------------------
(* C4 *)

\* step 2 of the normaliser on one character
Step2(ch, cfg) ==
    CASE ch \in FoldedAllowed(cfg) -> ch
      [] ch \notin FoldedAllowed(cfg) /\ ch \in FoldedReplace(cfg)
             -> cfg.replacement_character
      [] OTHER -> ch

\* steps 2 and 3 on the text t
Normalized(t, cfg) ==
    SelectSeq([i \in 1..Len(t) |-> Step2(t[i], cfg)],
              LAMBDA ch : ch \notin FoldedSkip(cfg))

\* C4: the result of preprocess_text is the text (lower-cased, with the
\* lower-cased sets, when case_sensitive is off) with every character mapped
\* to itself if allowed, else to the replacement character if in the replace
\* set, else to itself, and then with every skip-set character deleted; so it
\* holds no skip-set character.
C4_ReplaceThenSkip ==
    pc = "filtered" =>
        /\ filtered_text = Normalized(FoldedText(text, config), config)
        /\ Ran(filtered_text) \cap FoldedSkip(config) = {}

\* a text with a character both allowed and to replace (kept), a replaced
\* character and a deleted one
C4_Witness ==
    /\ pc = "filtered"
    /\ \E i \in 1..Len(text) :
          text[i] \in config.allowed_characters \cap config.characters_to_replace
    /\ \E i \in 1..Len(text) :
          /\ text[i] \in config.characters_to_replace \ config.allowed_characters
          /\ text[i] # config.replacement_character
    /\ config.replacement_character \in Ran(filtered_text)
    /\ Len(filtered_text) < Len(text)
    /\ config.case_sensitive

-----------------------------------------------------------------------------
(* C5 *)

\* the offsets of the windows of length len that hold no split character
KeptOffsets(t, len, split) ==
    {p \in 0..(Len(t) - len) : Ran(WindowAt(t, p, len)) \cap split = {}}

\* the offsets of the windows that hold a split character
ExcludedOffsets(t, len, split) ==
    {p \in 0..(Len(t) - len) : Ran(WindowAt(t, p, len)) \cap split # {}}

\* grams lists the windows at the kept offsets, in ascending offset order
WindowsInOrder(t, len, split, grams) ==
    LET kept == KeptOffsets(t, len, split)
    IN  /\ Len(grams) = Cardinality(kept)
        /\ \A p \in kept :
              grams[Cardinality({q \in kept : q < p}) + 1] = WindowAt(t, p, len)
        /\ \A k \in 1..Len(grams) : Ran(grams[k]) \cap split = {}
        /\ Len(grams) = Max(0, Len(t) - len + 1)
                            - Cardinality(ExcludedOffsets(t, len, split))
        /\ (split = {} => Len(grams) = Max(0, Len(t) - len + 1))
        /\ (Len(t) < len => grams = << >>)

\* C5: generate_character_ngrams returns, in ascending offset order, exactly
\* the windows stream[i : i+L], 0 <= i <= len(stream) - L, that hold no split
\* character; its length is max(0, len(stream) - L + 1) minus the number of
\* excluded windows, which is max(0, len(stream) - L + 1) for an empty split
\* set and 0 when the stream is shorter than L.
C5_WindowsWithoutSplit ==
    pc \in {"generated", "ranked"} =>
        /\ WindowsInOrder(filtered_text, config.n, config.characters_to_split,
                          n_grams)
        /\ WindowsInOrder(filtered_text, config.m, config.characters_to_split,
                          m_grams)

\* a split character in the middle of the stream: windows before and after
\* it are kept, the windows over it are left out
C5_Witness ==
    /\ pc = "generated"
    /\ config.n = 2
    /\ Len(n_grams) = 2
    /\ Cardinality(ExcludedOffsets(filtered_text, 2,
                                   config.characters_to_split)) = 1
    /\ Len(m_grams) < Len(filtered_text) - config.m + 1

-----------------------------------------------------------------------------
(* C6 *)

ExampleRun ==
    /\ text = ExampleText
    /\ config.n = 1
    /\ config.m = 1
    /\ config.top_n = 2
    /\ config.allowed_characters = {"a", "b"}
    /\ config.characters_to_replace = {}
    /\ config.characters_to_skip = {}
    /\ config.characters_to_split = {}

ExampleRanked ==
    /\ filtered_text = text
    /\ most_common_n_grams = << <<"a">>, <<"b">> >>

\* C6 as stated: on "aabbaabbaabb" with n = m = 1, top_n = 2, allowed = "ab"
\* and no replace, skip or split characters, the cleaned stream is the input,
\* the ranked n-grams are ["a", "b"], and the table has (a,a) = 1, (a,b) = 2,
\* (b,a) = 2 and (b,b) = 1.
C6_ExampleAsStated ==
    (ExampleRun /\ Counted) =>
        /\ ExampleRanked
        /\ counts[<< <<"a">>, <<"a">> >>] = 1
        /\ counts[<< <<"a">>, <<"b">> >>] = 2
        /\ counts[<< <<"b">>, <<"a">> >>] = 2
        /\ counts[<< <<"b">>, <<"b">> >>] = 1

\* C6 amended: on the same input the cleaned stream is the input, the ranked
\* n-grams are ["a", "b"], and the table has (a,a) = 3, (a,b) = 3, (b,a) = 2
\* and (b,b) = 3.
C6_ExampleCounts ==
    (ExampleRun /\ Counted) =>
        /\ ExampleRanked
        /\ counts[<< <<"a">>, <<"a">> >>] = 3
        /\ counts[<< <<"a">>, <<"b">> >>] = 3
        /\ counts[<< <<"b">>, <<"a">> >>] = 2
        /\ counts[<< <<"b">>, <<"b">> >>] = 3

\* the example has been run up to its table
C6_Witness ==
    /\ ExampleRun
    /\ pc = "counted"
    /\ Cardinality(DOMAIN counts) = 4

-----------------------------------------------------------------------------
(* C7 *)

RuleSetsDisjoint ==
    /\ config.allowed_characters \cap config.characters_to_replace = {}
    /\ config.allowed_characters \cap config.characters_to_skip = {}
    /\ config.characters_to_replace \cap config.characters_to_skip = {}

-----------------------------------------------------------------------------
(* C8 *)

\* a configuration that breaks n >= 1, m >= 1 or top_n >= 0
IllFormed(cfg) == cfg.n <= 0 \/ cfg.m <= 0 \/ cfg.top_n < 0

\* C8: an ill-formed configuration (n <= 0, m <= 0 or top_n < 0) is rejected
\* when it is loaded: with it no stage of the pipeline runs, and no ranked
\* list and no count table is produced.
C8_IllFormedRejected == IllFormed(config) => pc = "start"

-----------------------------------------------------------------------------
(* C9 *)

\* C9: with case_sensitive off (and a well-formed configuration), no window
\* produced by generate_character_ngrams holds a character equal, ignoring
\* case, to an entry of the split set.
C9_SplitIgnoresCase ==
    (/\ pc \in {"generated", "ranked", "counted", "html"}
     /\ ~config.case_sensitive
     /\ ~IllFormed(config)) =>
        \A k \in 1..Len(n_grams) : \A ch \in Ran(n_grams[k]) :
            \A s \in config.characters_to_split : Lower(ch) # Lower(s)

-----------------------------------------------------------------------------
(* C10 *)

\* C10: for a non-empty table (of a well-formed configuration) every count is
\* an index of gradient_list, 0 <= count < len(gradient_list), whatever the
\* parity of the largest count, so that no colour lookup fails.
C10_CountsIndexGradient ==
    (pc = "html" /\ DOMAIN counts # {} /\ ~IllFormed(config)) =>
        \A p \in DOMAIN counts : 0 <= counts[p] /\ counts[p] < gradient_len

====
